---- MODULE Spec2Model ----
(***************************************************************************)
(* NodeSculptor: a server-side builder that compiles an element tree into  *)
(* one HTML document.  The repository holds three variants of the engine:  *)
(*   "reactive" : src/unnamed/part_000 lines 1-271   (own JSDOM per engine,*)
(*                random ids, refs, state, bind, crush)                    *)
(*   "global"   : src/unnamed/part_000 lines 272-497 (module-level         *)
(*                document, counter ids, refs)                             *)
(*   "counter"  : src/Sculptor.js lines 1-180        (module-level         *)
(*                document, counter ids, validation in render)            *)
(* One engine instance of one variant is modelled; Init picks the variant. *)
(* Spec is the engine under every builder call, render, save and output;   *)
(* PageSpec adds a browser that loads what the reactive engine rendered    *)
(* and writes to State; TreeSpec is append on the elements.                *)
(***************************************************************************)
EXTENDS Integers, Sequences, FiniteSets, TLC

\* ------------------------------------------------------------ bounds
MaxCalls == 3     \* builder and render calls made on the engine in one run
MaxWrites == 2    \* State writes made in the browser in one run

\* ------------------------------------------------------------ value sets
Variants == {"reactive", "global", "counter"}
Elems == {"e1", "e2"}                \* the NodeElements the caller has created
\* Math.random().toString(36).substring(2, n): any short base-36 text, the
\* empty text included (Math.random() may return 0)
Tokens == {"", "q"}
ExplicitIds == {"x"}                 \* arguments of id(value), non-empty
Names == {"panel", "box"}            \* arguments of ref(name)
Keys == {"count"}                    \* state keys
\* state values: a JSON value, undefined (dropped by JSON.stringify), a cyclic
\* object (JSON.stringify throws)
StateVals == {"0", "undefined", "cyclic"}
Events == {"click"}
\* handler arguments: a function (its source holding no comment and no "//",
\* so that crush only removes white space from it), a number (has toString, is
\* no function), null
Handlers == {"fn", "num", "null"}
\* declaration maps: well formed, well formed with a value holding "//",
\* null (Object.entries throws)
RuleMaps == {"plain", "slashes", "null"}
Selectors == {"btn"}                 \* names given to sharedClass / globalStyle
PeerSelectors == {"nav"}             \* names given to the second engine's sharedClass
\* arguments of save(path): a file that can be written, one in a directory that
\* does not exist (fs.writeFileSync throws ENOENT)
Paths == {"index.html", "missing/index.html"}
\* NodeElements created to be nested in others
Children == {"a", "b", "c"}
\* argument lists of append, written as the tokens of the call: a child, null,
\* and the brackets of array literals
ArgLists ==
    {<<>>,                                   \* append()
     <<"a">>,                                \* append(a)
     <<"b", "a">>,                           \* append(b, a)
     <<"null", "c">>,                        \* append(null, c)
     <<"[", "a", "b", "]">>,                 \* append([a, b])
     <<"a", "[", "b", "c", "]">>,            \* append(a, [b, c])
     <<"[", "c", "null", "]", "b">>,         \* append([c, null], b)
     <<"[", "]">>,                           \* append([])
     <<"[", "[", "a", "]", "]">>,            \* append([[a]])
     <<"b", "[", "c", "[", "a", "]", "]">>}  \* append(b, [c, [a]])
\* values client code assigns to a State key; NaN is the one value that is not
\* === to itself
ClientVals == {"0", "1", "NaN"}
\* tag names handed to create: script and style hold raw text
Tags == {"div", "p", "script", "style"}
\* values handed to text, as their characters and words: a plain word, one
\* spelling a script element, one closing a script element before an img tag,
\* and one holding an ampersand
Texts ==
    {<<"hi">>,
     <<"<", "script", ">", "alert", "<", "/", "script", ">">>,
     <<"<", "/", "script", ">", "<", "img", ">">>,
     <<"a", "&", "b">>}
\* longest key of a rules map, in characters
MaxKeyLen == 3
\* the characters of those keys: letters of both cases, a hyphen, a digit
Chars == {"a", "A", "C", "-", "1"}
\* the characters /[A-Z]/ matches
Uppercase == {"A", "B", "C"}
BackgroundColor ==
    <<"b", "a", "c", "k", "g", "r", "o", "u", "n", "d", "C", "o", "l", "o", "r">>
\* the keys: every text of at most MaxKeyLen characters, and backgroundColor
PropKeys ==
    UNION {[1..n -> Chars] : n \in 0..MaxKeyLen} \cup {BackgroundColor}
\* class arguments: a name, and the empty string
ClassArgs == {"box", ""}
\* attribute names: a valid one, and the empty string
AttrKeys == {"title", ""}

VARIABLES
    variant,       \* which engine variant this instance is
    elId,          \* el.id of every NodeElement ("" when unset)
    elClass,       \* el.classList of every NodeElement
    styleBuffer, scriptBuffer, loadBuffer, refs, stateBuffer,
    idCounter, classCounter,
    title, head, body,   \* the document the engine renders into
    lastRendered,  \* the retained serialisation
    genIds,        \* values returned by generateId so far, in call order
    genClasses,    \* values returned by generateClassName so far
    refEl,         \* for each name in refs, the element whose ref call put it there
    calls,         \* number of calls made so far
    lastCall,      \* the most recent call and how it ended
    kids,          \* el.childNodes of every NodeElement
    page,          \* the document a browser has loaded
    store,         \* the target object of the State proxy
    cbs,           \* _cbs: the watchers of every state key
    listeners,     \* the event listeners the script has attached
    onload,        \* the lifecycle entries held by the load listener
    shown,         \* textContent of the page's elements
    fired,         \* the watcher invocations made by the latest State write
    writes,        \* number of State writes made so far
    elTag,         \* el.tagName of every NodeElement
    elText,        \* the text node of every NodeElement text(value) was called on
    elAttr,        \* the attributes of every NodeElement attribute or css has set
    prop,          \* a key of a rules map, as its characters
    cssKey,        \* the declaration key defineClass made of it
    peerStyle,     \* styleBuffer of a second engine of the same module
    peerDoc,       \* the document of the second engine's own JSDOM
    peerRendered   \* lastRendered of the second engine

elemVars == <<elId, elClass>>
bufVars == <<styleBuffer, scriptBuffer, loadBuffer, refs, refEl, stateBuffer>>
ctrVars == <<idCounter, classCounter, genIds, genClasses>>
docVars == <<title, head, body>>
vars == <<variant, elId, elClass, styleBuffer, scriptBuffer, loadBuffer, refs,
          stateBuffer, idCounter, classCounter, title, head, body,
          lastRendered, genIds, genClasses, refEl, calls, lastCall, kids,
          page, store, cbs, listeners, onload, shown, fired, writes,
          elTag, elText, elAttr, prop, cssKey, peerStyle, peerDoc,
          peerRendered>>
\* what text, attribute and css work on
nodeVars == <<elTag, elText, elAttr>>
\* what the key conversion of defineClass works on
keyVars == <<prop, cssKey>>
\* the second engine
peerVars == <<peerStyle, peerDoc, peerRendered>>
\* what no call on the engine or on an element's identity, hooks or classes
\* reaches: element content, the key conversion, the second engine
otherVars == <<nodeVars, keyVars, peerVars>>
\* what runs in the browser, which no builder call reaches
clientVars == <<page, store, cbs, listeners, onload, shown, fired, writes>>
\* the engine, its elements and its document, which no browser step reaches
serverVars == <<variant, elId, elClass, styleBuffer, scriptBuffer, loadBuffer, refs,
                stateBuffer, idCounter, classCounter, title, head, body,
                lastRendered, genIds, genClasses, refEl, calls, lastCall>>

\* ------------------------------------------------------------ helpers
EmptyMap == [k \in {} |-> ""]

Put(m, k, v) == [x \in DOMAIN m \cup {k} |-> IF x = k THEN v ELSE m[x]]

Last(s) == s[Len(s)]

Cfg(isNull, t, meta, scripts, css, icon) ==
    [isNull |-> isNull, title |-> t, meta |-> meta, scripts |-> scripts,
     css |-> css, icon |-> icon]

\* render(root) is render(root, {})
NoCfg == Cfg(FALSE, "", <<>>, <<>>, <<>>, "")

\* a call record: the method, the element it was called on ("-" for the engine,
\* "peer" for the second engine),
\* how it ended ("ok", "caught": logged inside, "thrown": thrown to the caller),
\* for render its config argument, and for save and output what the call gave
\* out: "none", "empty" (an empty text) or "document"
\* ret is what the call returned to its caller: "none" when it threw, "text"
\* for output, the new element for child, and for every other method its
\* receiver (`return this`)
CallRet(op, el, outcome, cfg, io, ret) ==
    [op |-> op, el |-> el, outcome |-> outcome, cfg |-> cfg, io |-> io, ret |-> ret]
CallIo(op, el, outcome, cfg, io) ==
    CallRet(op, el, outcome, cfg, io,
            IF outcome = "thrown" THEN "none"
            ELSE IF op = "output" THEN "text" ELSE el)
CallCfg(op, el, outcome, cfg) == CallIo(op, el, outcome, cfg, "-")
Call(op, el, outcome) == CallCfg(op, el, outcome, NoCfg)

\* head and body children, all of one record shape
Node(tag, a, text) == [tag |-> tag, a |-> a, text |-> text]

\* the JSDOM template of the constructor: charset, viewport, title
InitialHead == <<Node("meta", "charset", <<>>), Node("meta", "viewport", <<>>),
                 Node("title", "", <<>>)>>

\* no document loaded yet
NoPage == [loaded |-> FALSE, body |-> <<>>]

HasRefs == variant \in {"reactive", "global"}
IsReactive == variant = "reactive"

\* ------------------------------------------------------------ identifiers
\* generateId that reads the counter before incrementing it
GenerateIdStale(tok) ==
    IF variant = "reactive"
    THEN "_" \o tok
    ELSE "sc-id-" \o ToString(idCounter) \o "-" \o tok

\* generateId: a random token alone (reactive), or counter + token
GenerateId(tok) ==
    IF variant = "reactive"
    THEN "_" \o tok
    ELSE "sc-id-" \o ToString(idCounter + 1) \o "-" \o tok

GenerateClassName(tok) ==
    IF variant = "reactive"
    THEN "_" \o tok
    ELSE "sc-cls-" \o ToString(classCounter + 1)

\* a hook that generates an identifier whether or not the element has one
LacksIdAlways(id) == TRUE

\* `!this.el.id`
LacksId(id) == id = ""

\* `if (!this.el.id) this.el.id = this.engine.generateId();`
EnsureId(e, tok) ==
    IF LacksId(elId[e])
    THEN /\ elId' = [elId EXCEPT ![e] = GenerateId(tok)]
         /\ genIds' = Append(genIds, GenerateId(tok))
         /\ idCounter' = IF variant = "reactive" THEN idCounter ELSE idCounter + 1
    ELSE UNCHANGED <<elId, genIds, idCounter>>

\* one more call, while the run has calls left
Tick == calls < MaxCalls /\ calls' = calls + 1

\* ------------------------------------------------------------ Init
Constructed ==
    /\ variant \in Variants
    /\ elId = [e \in Elems |-> ""]
    /\ elClass = [e \in Elems |-> {}]
    /\ styleBuffer = <<>>
    /\ scriptBuffer = <<>>
    /\ loadBuffer = <<>>
    /\ refs = EmptyMap
    /\ refEl = EmptyMap
    /\ stateBuffer = EmptyMap
    /\ idCounter = 0
    /\ classCounter = 0
    /\ title = ""
    /\ head = InitialHead
    /\ body = <<>>
    /\ lastRendered = [some |-> FALSE, title |-> "", head |-> <<>>, body |-> <<>>]
    /\ genIds = <<>>
    /\ genClasses = <<>>
    /\ calls = 0
    /\ lastCall = Call("new", "-", "ok")
    /\ kids = [e \in Elems |-> <<>>]
    /\ page = NoPage
    /\ store = EmptyMap
    /\ cbs = EmptyMap
    /\ listeners = <<>>
    /\ onload = <<>>
    /\ shown = EmptyMap
    /\ fired = <<>>
    /\ writes = 0
    /\ elText = EmptyMap
    /\ elAttr = EmptyMap
    /\ cssKey = <<>>

\* no second engine has been constructed
Single == peerStyle = <<>> /\ peerDoc = <<>> /\ peerRendered = <<>>

\* a second engine has been constructed
Paired ==
    /\ peerStyle = <<>>
    /\ peerDoc = [title |-> "", head |-> InitialHead, body |-> <<>>]
    /\ peerRendered = [some |-> FALSE, title |-> "", head |-> <<>>, body |-> <<>>]

\* one engine; the elements the caller created are div elements; no rules map
\* is at hand
Init == Constructed /\ Single /\ elTag = [e \in Elems |-> "div"] /\ prop = <<>>

\* ------------------------------------------------------------ element calls
\* id(value)
SetId(e, v) ==
    /\ Tick
    /\ elId' = [elId EXCEPT ![e] = v]
    /\ lastCall' = Call("id", e, "ok")
    /\ UNCHANGED <<variant, kids, clientVars, otherVars, elClass, bufVars, idCounter,
                   classCounter, genIds, genClasses, docVars, lastRendered>>

\* ref(name)
Ref(e, name, tok) ==
    /\ Tick
    /\ HasRefs
    /\ EnsureId(e, tok)
    /\ refs' = Put(refs, name, elId'[e])
    /\ refEl' = Put(refEl, name, e)
    /\ lastCall' = Call("ref", e, "ok")
    /\ UNCHANGED <<variant, kids, clientVars, otherVars, elClass, styleBuffer,
                   scriptBuffer, loadBuffer, stateBuffer, classCounter,
                   genClasses, docVars, lastRendered>>

\* a behaviour entry of scriptBuffer / loadBuffer
Entry(kind, id, key, fn) == [kind |-> kind, id |-> id, key |-> key, fn |-> fn]

\* an entry put in front of the entries already recorded
Unshift(buf, x) == <<x>> \o buf

\* `this.engine.scriptBuffer.push(...)`, `this.loadBuffer.push(...)`
Push(buf, x) == Append(buf, x)

\* on(event, fn): the typeof check comes first and throws to the caller
On(e, ev, fn, tok) ==
    /\ Tick
    /\ IF fn # "fn"
       THEN /\ lastCall' = Call("on", e, "thrown")
            /\ UNCHANGED <<variant, kids, clientVars, otherVars, elemVars, bufVars,
                           ctrVars, docVars, lastRendered>>
       ELSE /\ EnsureId(e, tok)
            /\ scriptBuffer' = Push(scriptBuffer, Entry("event", elId'[e], ev, fn))
            /\ lastCall' = Call("on", e, "ok")
            /\ UNCHANGED <<variant, kids, clientVars, otherVars, elClass, styleBuffer,
                           loadBuffer, refs, refEl, stateBuffer, classCounter,
                           genClasses, docVars, lastRendered>>

OnEvent(e, ev, fn, tok) == On(e, ev, fn, tok)

\* click(fn) { return this.on('click', fn); }
Click(e, fn, tok) == On(e, "click", fn, tok)

\* bind(stateKey, templateFn): the id is ensured first; templateFn.toString()
\* is evaluated while the entry is built, and throws for null
Bind(e, key, fn, tok) ==
    /\ Tick
    /\ IsReactive
    /\ EnsureId(e, tok)
    /\ IF fn = "null"
       THEN /\ lastCall' = Call("bind", e, "thrown")
            /\ UNCHANGED scriptBuffer
       ELSE /\ scriptBuffer' = Push(scriptBuffer, Entry("watch", elId'[e], key, fn))
            /\ lastCall' = Call("bind", e, "ok")
    /\ UNCHANGED <<variant, kids, clientVars, otherVars, elClass, styleBuffer, loadBuffer,
                   refs, refEl, stateBuffer, classCounter, genClasses, docVars,
                   lastRendered>>

\* oncreate(fn), on the engine or forwarded by an element
Oncreate(fn) ==
    /\ Tick
    /\ IF fn # "fn"
       THEN /\ lastCall' = Call("oncreate", "-", "thrown")
            /\ UNCHANGED <<variant, kids, clientVars, otherVars, elemVars, bufVars,
                           ctrVars, docVars, lastRendered>>
       ELSE /\ loadBuffer' = Push(loadBuffer, Entry("load", "", "", fn))
            /\ lastCall' = Call("oncreate", "-", "ok")
            /\ UNCHANGED <<variant, kids, clientVars, otherVars, elemVars, styleBuffer,
                           scriptBuffer, refs, refEl, stateBuffer, ctrVars,
                           docVars, lastRendered>>

\* state(key, value)
State(key, value) ==
    /\ Tick
    /\ IsReactive
    /\ stateBuffer' = Put(stateBuffer, key, value)
    /\ lastCall' = Call("state", "-", "ok")
    /\ UNCHANGED <<variant, kids, clientVars, otherVars, elemVars, styleBuffer,
                   scriptBuffer, loadBuffer, refs, refEl, ctrVars, docVars,
                   lastRendered>>

\* ------------------------------------------------------------ styles
Rule(sel, decl) == [sel |-> sel, decl |-> decl]

\* defineClass(selector, rules, isRawSelector): Object.entries(null) throws
\* inside the try, the catch logs, and nothing is pushed
DefinedRules(buf, selector, rules, isRaw) ==
    IF rules = "null"
    THEN buf
    ELSE Append(buf, Rule(IF isRaw THEN selector ELSE "." \o selector, rules))

\* m.toLowerCase() of a character
ToLowerCase(m) ==
    CASE m = "A" -> "a" [] m = "B" -> "b" [] m = "C" -> "c" [] OTHER -> m

\* a replacement that drops the hyphen
Lowered(m) == <<ToLowerCase(m)>>

\* the replacement function `m => "-" + m.toLowerCase()`
Hyphenated(m) == <<"-", ToLowerCase(m)>>

\* prop.replace(/[A-Z]/g, ...): every match is replaced, the rest is copied
RECURSIVE Replace(_)
Replace(p) ==
    IF p = <<>> THEN <<>>
    ELSE (IF Head(p) \in Uppercase THEN Hyphenated(Head(p)) ELSE <<Head(p)>>)
         \o Replace(Tail(p))

\* the map callback of defineClass makes the declaration key of one entry
DefineKey ==
    /\ cssKey = <<>>
    /\ cssKey' = Replace(prop)
    /\ UNCHANGED <<serverVars, kids, clientVars, nodeVars, peerVars, prop>>

\* the key it made is the key of a later rules map
DefineAgain ==
    /\ cssKey # <<>>
    /\ prop' = cssKey
    /\ cssKey' = Replace(cssKey)
    /\ UNCHANGED <<serverVars, kids, clientVars, nodeVars, peerVars>>

\* sharedClass(name, rules) / defineClass(name, rules)
SharedClass(name, rules) ==
    /\ Tick
    /\ styleBuffer' = DefinedRules(styleBuffer, name, rules, FALSE)
    /\ lastCall' = Call("sharedClass", "-", IF rules = "null" THEN "caught" ELSE "ok")
    /\ UNCHANGED <<variant, kids, clientVars, otherVars, elemVars, scriptBuffer,
                   loadBuffer, refs, refEl, stateBuffer, ctrVars, docVars,
                   lastRendered>>

\* globalStyle(selector, rules) { return this.defineClass(selector, rules, true); }
GlobalStyle(selector, rules) ==
    /\ Tick
    /\ IsReactive
    /\ styleBuffer' = DefinedRules(styleBuffer, selector, rules, TRUE)
    /\ lastCall' = Call("globalStyle", "-", IF rules = "null" THEN "caught" ELSE "ok")
    /\ UNCHANGED <<variant, kids, clientVars, otherVars, elemVars, scriptBuffer,
                   loadBuffer, refs, refEl, stateBuffer, ctrVars, docVars,
                   lastRendered>>

\* uniqueClass(rules): generateClassName, defineClass, classList.add
UniqueClass(e, rules, tok) ==
    /\ Tick
    /\ genClasses' = Append(genClasses, GenerateClassName(tok))
    /\ classCounter' = IF variant = "reactive" THEN classCounter ELSE classCounter + 1
    /\ styleBuffer' = DefinedRules(styleBuffer, GenerateClassName(tok), rules, FALSE)
    /\ elClass' = [elClass EXCEPT ![e] = @ \cup {GenerateClassName(tok)}]
    /\ lastCall' = Call("uniqueClass", e, IF rules = "null" THEN "caught" ELSE "ok")
    /\ UNCHANGED <<variant, kids, clientVars, otherVars, elId, scriptBuffer, loadBuffer,
                   refs, refEl, stateBuffer, idCounter, genIds, docVars,
                   lastRendered>>

\* oncreate(fn) of an element: `this.engine.oncreate(fn); return this;`
ElementOncreate(e, fn) ==
    /\ Tick
    /\ IF fn # "fn"
       THEN /\ lastCall' = Call("oncreate", e, "thrown")
            /\ UNCHANGED <<variant, kids, clientVars, otherVars, elemVars, bufVars,
                           ctrVars, docVars, lastRendered>>
       ELSE /\ loadBuffer' = Push(loadBuffer, Entry("load", "", "", fn))
            /\ lastCall' = Call("oncreate", e, "ok")
            /\ UNCHANGED <<variant, kids, clientVars, otherVars, elemVars, styleBuffer,
                           scriptBuffer, refs, refEl, stateBuffer, ctrVars,
                           docVars, lastRendered>>

\* text(value): the textContent setter replaces every child of the element by
\* one text node holding the value
SetText(e, value) ==
    /\ Tick
    /\ elText' = Put(elText, e, value)
    /\ kids' = [kids EXCEPT ![e] = <<>>]
    /\ lastCall' = Call("text", e, "ok")
    /\ UNCHANGED <<variant, clientVars, keyVars, peerVars, elTag, elAttr,
                   elemVars, bufVars, ctrVars,
                   docVars, lastRendered>>

\* el.attributes: empty until attribute or css has set one
Attributes(e) == IF e \in DOMAIN elAttr THEN elAttr[e] ELSE EmptyMap

\* class(value): classList.add throws a SyntaxError on an empty token, which
\* the catch logs
AddClass(e, value) ==
    /\ Tick
    /\ elClass' = IF value = "" THEN elClass
                  ELSE [elClass EXCEPT ![e] = @ \cup {value}]
    /\ lastCall' = Call("class", e, IF value = "" THEN "caught" ELSE "ok")
    /\ UNCHANGED <<variant, kids, clientVars, otherVars, elId, bufVars, ctrVars,
                   docVars, lastRendered>>

\* attribute(key, value): setAttribute throws an InvalidCharacterError on a
\* name that is not an attribute name, and nothing catches it
Attribute(e, key, value) ==
    /\ Tick
    /\ elAttr' = IF key = "" THEN elAttr
                 ELSE Put(elAttr, e, Put(Attributes(e), key, value))
    /\ lastCall' = Call("attribute", e, IF key = "" THEN "thrown" ELSE "ok")
    /\ UNCHANGED <<variant, kids, clientVars, keyVars, peerVars, elTag, elText,
                   elemVars, bufVars,
                   ctrVars, docVars, lastRendered>>

\* css(styles): Object.assign onto el.style, which ignores a null source
Css(e, styles) ==
    /\ Tick
    /\ elAttr' = IF styles = "null" THEN elAttr
                 ELSE Put(elAttr, e, Put(Attributes(e), "style", styles))
    /\ lastCall' = Call("css", e, "ok")
    /\ UNCHANGED <<variant, kids, clientVars, keyVars, peerVars, elTag, elText,
                   elemVars, bufVars,
                   ctrVars, docVars, lastRendered>>

\* ------------------------------------------------------------ render inputs
\* a root argument: one value, or an array of values
One(x) == [arr |-> FALSE, items |-> <<x>>]
Many(xs) == [arr |-> TRUE, items |-> xs]

\* "undefined" is a falsy entry, "text" a string (truthy, no DOM node)
Roots == {One("e1"), One("undefined"), One("text"), Many(<<>>),
          Many(<<"e1", "e2">>), Many(<<"e2", "undefined">>)}

\* render(root), render(root, {title, meta, scripts, css, icon}), render(root, null)
Configs == {NoCfg,
            Cfg(FALSE, "T", <<"author">>, <<"app.js">>, <<"a.css">>, "fav.ico"),
            Cfg(TRUE, "", <<>>, <<>>, <<>>, "")}

\* ------------------------------------------------------------ render steps
\* `config.title || <default>`
TitleOf(cfg) ==
    IF cfg.title # "" THEN cfg.title
    ELSE IF variant = "counter" THEN "" ELSE "Sculpted Page"

Tagged(tag, xs) == [i \in 1..Len(xs) |-> Node(tag, xs[i], <<>>)]

\* the head children a render appends for its config, in the code's order
ConfigHead(cfg) ==
    (IF variant = "reactive"
     THEN Tagged("meta", cfg.meta) \o Tagged("script", cfg.scripts) ELSE <<>>)
    \o (IF variant \in {"reactive", "global"}
        THEN Tagged("link", cfg.css)
             \o (IF cfg.icon # "" THEN <<Node("icon", cfg.icon, <<>>)>> ELSE <<>>)
        ELSE <<>>)

\* crush: the first alternative `//.*` deletes from a "//" to the end of the
\* line, and the rules were joined with ' ' into one line
RECURSIVE Crush(_)
Crush(rules) ==
    IF rules = <<>> THEN <<>>
    ELSE IF Head(rules).decl = "slashes"
         THEN <<Rule(Head(rules).sel, "cut")>>
         ELSE <<Head(rules)>> \o Crush(Tail(rules))

StyleText(rules) == IF variant = "reactive" THEN Crush(rules) ELSE rules

\* `if (this.styleBuffer.length > 0) { ... head.appendChild(styleTag); }`
FlushedHead(h, rules) ==
    IF Len(rules) > 0 THEN Append(h, Node("style", "", StyleText(rules))) ELSE h

\* head after the config and style steps: children are appended to what the
\* head already holds
HeadAfter(h, cfg, rules) == FlushedHead(h \o ConfigHead(cfg), rules)

\* body children
ElemNode(e) ==
    [tag |-> "el", el |-> e, m |-> EmptyMap, state |-> EmptyMap,
     scripts |-> <<>>, loads |-> <<>>]
ScriptNode(m, st, scripts, loads) ==
    [tag |-> "script", el |-> "-", m |-> m, state |-> st,
     scripts |-> scripts, loads |-> loads]

Without(b, n) == SelectSeq(b, LAMBDA x : x # n)

\* body.appendChild(node): a node already in the body moves to the end
AppendChild(b, n) == Append(Without(b, n), n)

\* `body.innerHTML = ""` that keeps the children of the previous render
ClearedBodyKept(b) == b

\* `body.innerHTML = ""`: the body starts every render without children
ClearedBody(b) == <<>>

\* a NodeElement unwraps to its el; undefined and a string are no Node, and
\* appendChild throws a TypeError for them
Appendable(item) == item \in Elems

\* `elements.forEach(item => body.appendChild(...))`: the children mounted
\* until the first item that throws
RECURSIVE Mount(_, _)
Mount(b, items) ==
    IF items = <<>> THEN [ok |-> TRUE, body |-> b]
    ELSE IF ~Appendable(Head(items)) THEN [ok |-> FALSE, body |-> b]
         ELSE Mount(AppendChild(b, ElemNode(Head(items))), Tail(items))

\* JSON.stringify of the state table: undefined values are dropped
Stringify(st) == [k \in {x \in DOMAIN st : st[x] # "undefined"} |-> st[k]]
\* ... and a cyclic value throws
Stringifiable(st) == \A k \in DOMAIN st : st[k] # "cyclic"

\* dom.serialize(): the document with every element's current attributes
Serialize(t, h, b) ==
    [some |-> TRUE, title |-> t, head |-> h,
     body |-> [i \in 1..Len(b) |->
                 [node |-> b[i],
                  id |-> IF b[i].tag = "el" THEN elId[b[i].el] ELSE "",
                  class |-> IF b[i].tag = "el" THEN elClass[b[i].el] ELSE {}]]]

\* ------------------------------------------------------------ render
\* what throws before the document is touched: the counter variant's
\* `if (!root) throw`, and `config.title` of a null config (all variants)
ThrowsAtEntry(root, cfg) ==
    \/ variant = "counter" /\ ~root.arr /\ root.items[1] = "undefined"
    \/ cfg.isNull

\* a script element that puts every entry inside the load listener
EmittedScriptDeferred ==
    IF variant = "counter" /\ Len(scriptBuffer) + Len(loadBuffer) = 0
    THEN <<>>
    ELSE <<ScriptNode(IF HasRefs THEN refs ELSE EmptyMap,
                      IF IsReactive THEN Stringify(stateBuffer) ELSE EmptyMap,
                      <<>>, scriptBuffer \o loadBuffer)>>

\* the script element of a render, or <<>> when the variant emits none; the
\* entries are emitted scriptBuffer first, loadBuffer inside the load listener
EmittedScript ==
    CASE variant = "reactive" ->
           <<ScriptNode(refs, Stringify(stateBuffer), scriptBuffer, loadBuffer)>>
      [] variant = "global" ->
           <<ScriptNode(refs, EmptyMap, scriptBuffer, loadBuffer)>>
      [] variant = "counter" ->
           IF Len(scriptBuffer) + Len(loadBuffer) > 0
           THEN <<ScriptNode(EmptyMap, EmptyMap, scriptBuffer, loadBuffer)>>
           ELSE <<>>

\* the script element inserted before the mounted content
WithScriptFirst(b) == EmittedScript \o b

\* `body.appendChild(scriptTag)`, after the content has been mounted
WithScript(b) == b \o EmittedScript

\* the runtime template evaluates JSON.stringify(this.stateBuffer)
ThrowsAtScript == variant = "reactive" /\ ~Stringifiable(stateBuffer)

\* lastRendered assigned whether or not the try block completed
RetainedAlways(ok, previous, serialized) == serialized

\* `this.lastRendered = ...serialize()` is the last statement of the try
Retained(ok, previous, serialized) == IF ok THEN serialized ELSE previous

\* the state buffer is not among the buffers render resets
StateAfterRender(st) == st

\* render(root, config): every throw lands in the catch, which logs
Render(root, cfg) ==
    /\ Tick
    /\ UNCHANGED <<variant, kids, clientVars, otherVars, elemVars, ctrVars>>
    /\ IF ThrowsAtEntry(root, cfg)
       THEN /\ lastCall' = Call("render", "-", "caught")
            /\ lastRendered' = Retained(FALSE, lastRendered, Serialize(title, head, body))
            /\ UNCHANGED <<bufVars, docVars>>
       ELSE LET mount == Mount(ClearedBody(body), root.items)
                ok == mount.ok /\ ~ThrowsAtScript
            IN  /\ title' = TitleOf(cfg)
                /\ head' = HeadAfter(head, cfg, styleBuffer)
                /\ styleBuffer' = <<>>
                /\ body' = IF ok THEN WithScript(mount.body) ELSE mount.body
                /\ scriptBuffer' = IF ok THEN <<>> ELSE scriptBuffer
                /\ loadBuffer' = IF ok THEN <<>> ELSE loadBuffer
                /\ refs' = IF ok THEN EmptyMap ELSE refs
                /\ refEl' = IF ok THEN EmptyMap ELSE refEl
                /\ stateBuffer' = IF ok THEN StateAfterRender(stateBuffer)
                                  ELSE stateBuffer
                /\ lastRendered' = Retained(ok, lastRendered,
                                            Serialize(title', head', body'))
                /\ lastCall' = CallCfg("render", "-", IF ok THEN "ok" ELSE "caught", cfg)

\* ------------------------------------------------------------ serialised text
\* the elements whose text children the serialiser writes as they are
RawText == {"script", "style"}

\* the serialiser's escaping of a text node: & < > become entities
Escaped(value) ==
    [i \in DOMAIN value |->
        CASE value[i] = "&" -> "&amp;"
          [] value[i] = "<" -> "&lt;"
          [] value[i] = ">" -> "&gt;"
          [] OTHER -> value[i]]

RECURSIVE SerializeChildren(_)
SerializeChildren(ks) ==
    IF ks = <<>> THEN <<>>
    ELSE <<"<", "div", ">", "<", "/", "div", ">">> \o SerializeChildren(Tail(ks))

\* what dom.serialize() writes for one element: start tag, text node, child
\* elements, end tag
SerializeNode(tag, value, ks) ==
    <<"<", tag, ">">>
    \o (IF tag \in RawText THEN value ELSE Escaped(value))
    \o SerializeChildren(ks)
    \o <<"<", "/", tag, ">">>

\* a tag name, as opposed to punctuation or an entity
IsName(t) == t \notin {"<", ">", "/", "&", "&amp;", "&lt;", "&gt;"}

\* the start tags a browser finds when it parses the text: inside a raw text
\* element everything up to that element's end tag is text
RECURSIVE StartTags(_, _)
StartTags(toks, raw) ==
    IF Len(toks) < 3 THEN 0
    ELSE IF raw # ""
         THEN IF Len(toks) >= 4 /\ SubSeq(toks, 1, 4) = <<"<", "/", raw, ">">>
              THEN StartTags(SubSeq(toks, 5, Len(toks)), "")
              ELSE StartTags(Tail(toks), raw)
         ELSE IF toks[1] = "<" /\ IsName(toks[2]) /\ toks[3] = ">"
              THEN 1 + StartTags(SubSeq(toks, 4, Len(toks)),
                                 IF toks[2] \in RawText THEN toks[2] ELSE "")
              ELSE StartTags(Tail(toks), "")

\* ------------------------------------------------------------ second engine
\* the document the second engine renders into: `this.document` of its own
\* JSDOM (reactive), or the module-level `document` every engine of the module
\* uses
PeerDocument ==
    IF IsReactive THEN peerDoc ELSE [title |-> title, head |-> head, body |-> body]

\* the script element of a render of the second engine, which has registered
\* no reference, state, binding or lifecycle entry
PeerScript ==
    IF variant = "counter" THEN <<>>
    ELSE <<ScriptNode(EmptyMap, EmptyMap, <<>>, <<>>)>>

\* sharedClass(name, rules) on the second engine
PeerSharedClass(name, rules) ==
    /\ Tick
    /\ peerStyle' = DefinedRules(peerStyle, name, rules, FALSE)
    /\ lastCall' = Call("sharedClass", "peer", IF rules = "null" THEN "caught" ELSE "ok")
    /\ UNCHANGED <<variant, kids, clientVars, nodeVars, keyVars, elemVars, bufVars,
                   ctrVars, docVars, lastRendered, peerDoc, peerRendered>>

\* render(root, config) on the second engine
PeerRender(root, cfg) ==
    /\ Tick
    /\ UNCHANGED <<variant, kids, clientVars, nodeVars, keyVars, elemVars, bufVars,
                   ctrVars, lastRendered>>
    /\ IF ThrowsAtEntry(root, cfg)
       THEN /\ lastCall' = CallCfg("render", "peer", "caught", cfg)
            /\ UNCHANGED <<docVars, peerVars>>
       ELSE LET mount == Mount(ClearedBody(PeerDocument.body), root.items)
                after == [title |-> TitleOf(cfg),
                          head |-> HeadAfter(PeerDocument.head, cfg, peerStyle),
                          body |-> IF mount.ok THEN mount.body \o PeerScript
                                   ELSE mount.body]
            IN  /\ peerStyle' = <<>>
                /\ IF IsReactive
                   THEN peerDoc' = after /\ UNCHANGED docVars
                   ELSE /\ title' = after.title
                        /\ head' = after.head
                        /\ body' = after.body
                        /\ UNCHANGED peerDoc
                /\ peerRendered' = Retained(mount.ok, peerRendered,
                                            Serialize(after.title, after.head, after.body))
                /\ lastCall' = CallCfg("render", "peer",
                                       IF mount.ok THEN "ok" ELSE "caught", cfg)

\* ------------------------------------------------------------ append
\* the arguments a token list spells, each one a token list of its own: a
\* single token, or an array literal with its brackets
RECURSIVE Items(_, _, _, _)
Items(toks, depth, cur, acc) ==
    IF toks = <<>> THEN acc
    ELSE LET t == Head(toks)
             r == Tail(toks)
         IN  IF t = "["
             THEN Items(r, depth + 1, Append(cur, t), acc)
             ELSE IF t = "]"
                  THEN IF depth = 1
                       THEN Items(r, 0, <<>>, Append(acc, Append(cur, t)))
                       ELSE Items(r, depth - 1, Append(cur, t), acc)
                  ELSE IF depth = 0
                       THEN Items(r, 0, <<>>, Append(acc, <<t>>))
                       ELSE Items(r, depth, Append(cur, t), acc)

Arguments(toks) == Items(toks, 0, <<>>, <<>>)

IsArray(item) == Head(item) = "["
Falsy(item) == item = <<"null">>

\* the elements of an array literal
Elements(item) == Arguments(SubSeq(item, 2, Len(item) - 1))

\* `children.flat()`: Array.prototype.flat with its default depth of 1
RECURSIVE Flat(_)
Flat(items) ==
    IF items = <<>> THEN <<>>
    ELSE (IF IsArray(Head(items)) THEN Elements(Head(items)) ELSE <<Head(items)>>)
         \o Flat(Tail(items))

\* `this.el.appendChild(node)`: the node leaves the parent it had
Adopt(ks, e, n) ==
    [p \in DOMAIN ks |-> IF p = e THEN AppendChild(ks[p], n) ELSE Without(ks[p], n)]

\* the forEach of append: a falsy child is skipped, a NodeElement is appended,
\* anything else (an array) makes appendChild throw a TypeError
RECURSIVE AppendEach(_, _, _)
AppendEach(ks, e, items) ==
    IF items = <<>> THEN [ok |-> TRUE, kids |-> ks]
    ELSE IF Falsy(Head(items)) THEN AppendEach(ks, e, Tail(items))
         ELSE IF IsArray(Head(items)) THEN [ok |-> FALSE, kids |-> ks]
              ELSE AppendEach(Adopt(ks, e, Head(items)[1]), e, Tail(items))

\* the children append works on: `...children` flattened once (part_000), or
\* the single parameter `child` (src/Sculptor.js), undefined when not given
Appended(args) ==
    IF variant = "counter"
    THEN IF Arguments(args) = <<>> THEN <<>> ELSE <<Head(Arguments(args))>>
    ELSE Flat(Arguments(args))

\* append(...children); only src/Sculptor.js wraps the body in try/catch
AppendChildren(e, args) ==
    /\ Tick
    /\ LET done == AppendEach(kids, e, Appended(args))
       IN  /\ kids' = done.kids
           /\ lastCall' = Call("append", e,
                                IF done.ok THEN "ok"
                                ELSE IF variant = "counter" THEN "caught" ELSE "thrown")
    /\ UNCHANGED <<variant, clientVars, otherVars, elemVars, bufVars, ctrVars,
                   docVars, lastRendered>>

\* child is a method of NodeElement in part_000 only
HasChild == variant \in {"reactive", "global"}

\* `this.engine.create(tag)` inside child: a new element, named after the
\* call that made it
Create(n) == "n" \o ToString(n)

\* `return this;`, which child does not do
ReturnedThis(receiver, childNode) == receiver

\* `return childNode;`
Returned(receiver, childNode) == childNode

\* child(tag): create, append to the receiver, return the new element
Child(e) ==
    /\ HasChild
    /\ Tick
    /\ LET childNode == Create(calls')
           done == AppendEach(kids, e, <<<<childNode>>>>)
       IN  /\ kids' = done.kids
           /\ lastCall' = CallRet("child", e, "ok", NoCfg, "-", Returned(e, childNode))
    /\ UNCHANGED <<variant, clientVars, otherVars, elemVars, bufVars, ctrVars,
                   docVars, lastRendered>>

\* ------------------------------------------------------------ save, output
Writable(path) == path = "index.html"

\* the text of lastRendered: "" until a render has succeeded
Text(rendered) == IF rendered.some THEN "document" ELSE "empty"

\* `if (!this.lastRendered) throw ...` is in the counter engine only
ChecksRendered == variant = "counter"

\* save(path): fs.writeFileSync(path, this.lastRendered); the counter engine
\* wraps the check and the write in try/catch, the other two do neither
Save(path) ==
    /\ Tick
    /\ lastCall' =
         IF ChecksRendered /\ ~lastRendered.some
         THEN CallIo("save", "-", "caught", NoCfg, "none")
         ELSE IF ~Writable(path)
              THEN CallIo("save", "-", IF variant = "counter" THEN "caught" ELSE "thrown",
                          NoCfg, "none")
              ELSE CallIo("save", "-", "ok", NoCfg, Text(lastRendered))
    /\ UNCHANGED <<variant, kids, clientVars, otherVars, elemVars, bufVars, ctrVars,
                   docVars, lastRendered>>

\* output() { return this.lastRendered; }
Output ==
    /\ Tick
    /\ lastCall' = CallIo("output", "-", "ok", NoCfg, Text(lastRendered))
    /\ UNCHANGED <<variant, kids, clientVars, otherVars, elemVars, bufVars, ctrVars,
                   docVars, lastRendered>>

\* ------------------------------------------------------------ emitted runtime
\* document.getElementById(id): the first element of the page with that id
GetElementById(pg, id) ==
    LET hits == {i \in DOMAIN pg.body :
                   pg.body[i].node.tag = "el" /\ pg.body[i].id = id /\ id # ""}
    IN  IF hits = {} THEN "null"
        ELSE pg.body[CHOOSE i \in hits : \A j \in hits : i <= j].node.el

\* the elements the page holds under its body
Mounted(pg) ==
    {pg.body[i].node.el :
        i \in {j \in DOMAIN pg.body : pg.body[j].node.tag = "el"}}

\* `t[k]===v`
StrictEq(a, b) == a = b /\ a # "NaN"

\* t[k], undefined for a key the target does not have
Held(st, k) == IF k \in DOMAIN st THEN st[k] ELSE "undefined"

\* _cbs[k], nothing for a key without watchers
WatchersIn(c, k) == IF k \in DOMAIN c THEN c[k] ELSE <<>>
Watchers(k) == WatchersIn(cbs, k)

\* `(${templateFn.toString()})(val)`
Transform(fn, v) == fn \o "(" \o v \o ")"

\* `(${fn.toString()})();` inside the load listener: the call the listener
\* makes for a lifecycle entry, with its arguments
Invoke(entry) == [fn |-> entry.fn, args |-> <<>>]

\* the statements recorded by on/click and bind, executed in order when the
\* script element is evaluated: watchState pushes the watcher to _cbs[k];
\* `document.getElementById(id).addEventListener(...)` throws a TypeError when
\* the page has no element with that id, and that ends the script
RECURSIVE RunScript(_, _, _)
RunScript(entries, pg, acc) ==
    IF entries = <<>> THEN acc
    ELSE LET x == Head(entries)
         IN  IF x.kind = "watch"
             THEN RunScript(Tail(entries), pg,
                            [acc EXCEPT !.cbs = Put(@, x.key,
                                                    Append(WatchersIn(@, x.key), x))])
             ELSE IF GetElementById(pg, x.id) = "null"
                  THEN [acc EXCEPT !.halted = TRUE]
                  ELSE RunScript(Tail(entries), pg,
                                 [acc EXCEPT !.listeners = Append(@, x)])

\* a browser opens the retained document and evaluates its script: UI and
\* State are installed, then the recorded statements run, then the load
\* listener is attached
Load ==
    /\ IsReactive
    /\ lastRendered.some
    /\ ~page.loaded
    /\ LET pg == [loaded |-> TRUE, body |-> lastRendered.body]
           sc == Last(lastRendered.body).node
           run == RunScript(sc.scripts, pg,
                            [cbs |-> EmptyMap, listeners |-> <<>>, halted |-> FALSE])
       IN  /\ page' = pg
           /\ store' = sc.state
           /\ cbs' = run.cbs
           /\ listeners' = run.listeners
           /\ onload' = IF run.halted THEN <<>> ELSE sc.loads
           /\ shown' = [e \in Mounted(pg) |-> ""]
    /\ fired' = <<>>
    /\ UNCHANGED <<serverVars, kids, otherVars, writes>>

\* a watcher recorded by bind:
\* `const el = document.getElementById(id); if (el) el.textContent = (fn)(val);`
RECURSIVE Dispatch(_, _, _)
Dispatch(sh, ws, v) ==
    IF ws = <<>> THEN sh
    ELSE LET el == GetElementById(page, Head(ws).id)
         IN  Dispatch(IF el = "null" THEN sh
                      ELSE [sh EXCEPT ![el] = Transform(Head(ws).fn, v)],
                      Tail(ws), v)

\* `State[k] = v` in the browser, the set trap of the proxy:
\* `if(t[k]===v)return true;t[k]=v;if(_cbs[k])_cbs[k].forEach(f=>f(v));return true`
Write(k, v) ==
    /\ page.loaded
    /\ writes < MaxWrites
    /\ writes' = writes + 1
    /\ IF StrictEq(Held(store, k), v)
       THEN /\ fired' = <<>>
            /\ UNCHANGED <<store, shown>>
       ELSE /\ store' = Put(store, k, v)
            /\ fired' = [i \in 1..Len(Watchers(k)) |-> [w |-> Watchers(k)[i], v |-> v]]
            /\ shown' = Dispatch(shown, Watchers(k), v)
    /\ UNCHANGED <<serverVars, kids, otherVars, page, cbs, listeners, onload>>

\* ------------------------------------------------------------ specification
Next ==
    \/ \E e \in Elems, v \in ExplicitIds : SetId(e, v)
    \/ \E e \in Elems, n \in Names, t \in Tokens : Ref(e, n, t)
    \/ \E e \in Elems, ev \in Events, f \in Handlers, t \in Tokens : OnEvent(e, ev, f, t)
    \/ \E e \in Elems, f \in Handlers, t \in Tokens : Click(e, f, t)
    \/ \E e \in Elems, k \in Keys, f \in Handlers, t \in Tokens : Bind(e, k, f, t)
    \/ \E f \in Handlers : Oncreate(f)
    \/ \E k \in Keys, v \in StateVals : State(k, v)
    \/ \E n \in Selectors, r \in RuleMaps : SharedClass(n, r)
    \/ \E n \in Selectors, r \in RuleMaps : GlobalStyle(n, r)
    \/ \E e \in Elems, r \in RuleMaps, t \in Tokens : UniqueClass(e, r, t)
    \/ \E root \in Roots, cfg \in Configs : Render(root, cfg)
    \/ \E path \in Paths : Save(path)
    \/ Output

Spec == Init /\ [][Next]_vars

\* The reactive engine together with a browser that loads what it rendered:
\* one element is bound and given handlers, two state keys are used
PageKeys == {"count", "name"}

PageInit == Init /\ variant = "reactive"

PageNext ==
    \/ SetId("e1", "x")
    \/ \E k \in PageKeys : Bind("e1", k, "fn", "q")
    \/ \E e \in Elems : Click(e, "fn", "q")
    \/ Oncreate("fn")
    \/ ElementOncreate("e1", "fn")
    \/ \E k \in PageKeys : State(k, "0")
    \/ \E root \in {One("e1"), Many(<<"e1", "e2">>)} : Render(root, NoCfg)
    \/ Load
    \/ \E k \in PageKeys, v \in ClientVals : Write(k, v)

PageSpec == PageInit /\ [][PageNext]_vars

\* Trees: append calls on the elements, in any order
TreeInit == Init

TreeNext ==
    \/ \E e \in Elems, args \in ArgLists : AppendChildren(e, args)
    \/ \E e \in Elems : Child(e)
    \/ \E e \in Elems : SetId(e, "x")
    \/ \E e \in Elems : SetText(e, <<"hi">>)
    \/ \E e \in Elems, c \in ClassArgs : AddClass(e, c)
    \/ \E e \in Elems, k \in AttrKeys : Attribute(e, k, "v")
    \/ \E e \in Elems, r \in {"plain", "null"} : Css(e, r)
    \/ \E e \in Elems, r \in {"plain", "null"} : UniqueClass(e, r, "q")
    \/ \E e \in Elems : Ref(e, "panel", "q")
    \/ \E e \in Elems, f \in {"fn", "null"} : Bind(e, "count", f, "q")
    \/ \E e \in Elems, f \in {"fn", "null"} : OnEvent(e, "click", f, "q")
    \/ \E e \in Elems, f \in {"fn", "null"} : Click(e, f, "q")
    \/ \E e \in Elems, f \in {"fn", "null"} : ElementOncreate(e, f)

TreeSpec == TreeInit /\ [][TreeNext]_vars

\* the key conversion of defineClass, applied to the keys of a rules map
KeyInit ==
    Constructed /\ Single /\ elTag = [e \in Elems |-> "div"] /\ prop \in PropKeys

KeyNext == DefineKey \/ DefineAgain

KeySpec == KeyInit /\ [][KeyNext]_vars

\* text and append on elements of any tag
TextInit == Constructed /\ Single /\ elTag \in [Elems -> Tags] /\ prop = <<>>

TextNext ==
    \/ \E e \in Elems, value \in Texts : SetText(e, value)
    \/ \E e \in Elems : AppendChildren(e, <<"a">>)

TextSpec == TextInit /\ [][TextNext]_vars

\* two engines of one module, each with one element and its own calls
PairInit == Constructed /\ Paired /\ elTag = [e \in Elems |-> "div"] /\ prop = <<>>

PairNext ==
    \/ \E n \in Selectors : SharedClass(n, "plain")
    \/ Click("e1", "fn", "q")
    \/ \E cfg \in Configs : Render(One("e1"), cfg)
    \/ \E n \in PeerSelectors, r \in {"plain", "null"} : PeerSharedClass(n, r)
    \/ \E cfg \in Configs : PeerRender(One("e2"), cfg)

PairSpec == PairInit /\ [][PairNext]_vars

\* ------------------------------------------------------------ steps
HookStep(e) ==
    /\ calls' = calls + 1
    /\ lastCall'.op \in {"on", "ref", "bind"}
    /\ lastCall'.el = e

RenderStep == calls' = calls + 1 /\ lastCall'.op = "render"
RenderOk == RenderStep /\ lastCall'.outcome = "ok"
RenderFailed == RenderStep /\ lastCall'.outcome # "ok"

Distinct(s) == \A i, j \in DOMAIN s : i # j => s[i] # s[j]

StyleBlocks(h) == SelectSeq(h, LAMBDA n : n.tag = "style")
ScriptNodes(b) == SelectSeq(b, LAMBDA n : n.node.tag = "script")

\* ------------------------------------------------------------ claims
\* C1: a hook call (on/click, ref, bind) on an element that has an identifier
\* leaves it as it is and does not call generateId; a hook call that finds the
\* element without one and completes gives it the identifier of exactly one
\* new generateId call, and touches no other element's identifier.
C1_IdAssignedOnce ==
    [][\A e \in Elems : HookStep(e) =>
          IF elId[e] # ""
          THEN elId' = elId /\ genIds' = genIds
          ELSE lastCall'.outcome = "ok" =>
                 /\ Len(genIds') = Len(genIds) + 1
                 /\ elId' = [elId EXCEPT ![e] = Last(genIds')]]_vars

\* two hooks ran on one element and one identifier was generated for both
C1_Witness ==
    \E e \in Elems :
        /\ lastCall.op = "ref" /\ lastCall.el = e /\ lastCall.outcome = "ok"
        /\ Len(genIds) = 1 /\ elId[e] = genIds[1]
        /\ Len(scriptBuffer) = 1 /\ scriptBuffer[1].id = elId[e]
        /\ refs["panel"] = elId[e]

\* C2: in the reactive engine the values returned by generateId are pairwise
\* distinct, and so are the values returned by generateClassName.
C2_RandomIdsDistinct ==
    variant = "reactive" => Distinct(genIds) /\ Distinct(genClasses)

\* C3: in the counter engine the k-th generateId returns sc-id-k-<token> and
\* the k-th generateClassName returns sc-cls-k, so both are pairwise distinct;
\* no call (render included) lowers a counter, and a call moves at most one.
C3_CounterIds ==
    /\ [](variant = "counter" =>
            /\ \A k \in DOMAIN genIds :
                 \E t \in Tokens : genIds[k] = "sc-id-" \o ToString(k) \o "-" \o t
            /\ \A k \in DOMAIN genClasses : genClasses[k] = "sc-cls-" \o ToString(k)
            /\ Distinct(genIds) /\ Distinct(genClasses)
            /\ idCounter = Len(genIds) /\ classCounter = Len(genClasses))
    /\ [][variant = "counter" =>
            /\ idCounter' >= idCounter /\ classCounter' >= classCounter
            /\ idCounter' = idCounter \/ classCounter' = classCounter
            /\ RenderStep => idCounter' = idCounter /\ classCounter' = classCounter]_vars

\* the counter engine generated one identifier before a render and a second
\* one after it
C3_Witness ==
    /\ variant = "counter"
    /\ lastRendered.some
    /\ Len(genIds) = 2 /\ Len(scriptBuffer) = 1
    /\ scriptBuffer[1].id = genIds[2]

\* C4: the UI._m table a render of the reactive engine emits has one entry per
\* name registered since the last flush, and maps each name to the identifier
\* of the element that registered it last.
C4_RefRoundTrip ==
    [][variant = "reactive" /\ RenderOk =>
          LET m == Last(body').m
          IN  /\ DOMAIN m = DOMAIN refEl
              /\ \A n \in DOMAIN refEl : m[n] = elId[refEl[n]]]_vars

\* C5: a successful render that flushes registered rules leaves exactly one
\* stylesheet block in the document, holding every rule registered before the
\* render once, in registration order.
C5_StyleFlushComplete ==
    [][(variant \in {"reactive", "counter"}) /\ RenderOk /\ styleBuffer # <<>> =>
          /\ Len(StyleBlocks(lastRendered'.head)) = 1
          /\ StyleBlocks(lastRendered'.head)[1].text = styleBuffer]_vars

\* C6: a successful render that directly follows a successful render (nothing
\* registered in between) produces a document with no style rules and with no
\* script content: no references, state seeds, bindings or lifecycle entries.
C6_SecondRenderEmpty ==
    [][/\ variant \in {"reactive", "counter"}
       /\ lastCall.op = "render" /\ lastCall.outcome = "ok"
       /\ RenderOk =>
          /\ \A i \in DOMAIN StyleBlocks(lastRendered'.head) :
                StyleBlocks(lastRendered'.head)[i].text = <<>>
          /\ \A i \in DOMAIN ScriptNodes(lastRendered'.body) :
                LET sc == ScriptNodes(lastRendered'.body)[i].node
                IN  /\ DOMAIN sc.m = {} /\ DOMAIN sc.state = {}
                    /\ sc.scripts = <<>> /\ sc.loads = <<>>]_vars

\* C7: right after a successful render of the reactive engine styleBuffer,
\* scriptBuffer, loadBuffer, refs and stateBuffer are all empty.
C7_ClearOnFlush ==
    (variant = "reactive" /\ lastCall.op = "render" /\ lastCall.outcome = "ok") =>
        /\ styleBuffer = <<>> /\ scriptBuffer = <<>> /\ loadBuffer = <<>>
        /\ DOMAIN refs = {} /\ DOMAIN stateBuffer = {}

\* C8: no render call ends by throwing to its caller, and a render in which a
\* step threw leaves lastRendered as the last successful render set it.
C8_RenderContained ==
    [][RenderStep =>
          /\ lastCall'.outcome \in {"ok", "caught"}
          /\ lastCall'.outcome = "caught" => lastRendered' = lastRendered]_vars

\* a render failed after an earlier one had succeeded, with the document
\* already changed by the failed one
C8_Witness ==
    /\ lastCall.op = "render" /\ lastCall.outcome = "caught"
    /\ lastRendered.some
    /\ Len(lastRendered.body) > Len(body)

\* C9: a render that fails changes none of styleBuffer, scriptBuffer,
\* loadBuffer, refs, the head and the body.
C9_FailedRenderNoOp ==
    [][(variant \in {"reactive", "counter"}) /\ RenderFailed =>
          UNCHANGED <<styleBuffer, scriptBuffer, loadBuffer, refs, head, body>>]_vars

\* C10: after a successful render the head holds the constructor's children
\* followed by what this render's config and flushed styles produce, and
\* nothing else.
C10_HeadRebuilt ==
    [][(variant \in {"reactive", "global"}) /\ RenderOk =>
          head' = HeadAfter(InitialHead, lastCall'.cfg, styleBuffer)]_vars

\* the body children that are mounted content (not the engine's script)
Content(b) == SelectSeq(b, LAMBDA n : n.tag = "el")

\* C11: a successful render of the nodes A1..An (a single node being n = 1)
\* leaves the body with exactly A1..An as its content children, in that order
\* and with nothing wrapped around them; what an earlier render mounted is gone
\* unless it is mounted again.
C11_FlatRendering ==
    [][RenderOk =>
          \A root \in Roots :
             Render(root, lastCall'.cfg) =>
                /\ Content(body') =
                      [i \in 1..Len(root.items) |-> ElemNode(root.items[i])]
                /\ \A i \in DOMAIN body' :
                      \/ body'[i].tag = "el"
                      \/ body'[i].tag = "script" /\ i = Len(body')]_vars

\* a render mounted e1 and e2, in that order, into a body an earlier render
\* call had already been at work on
C11_Witness ==
    /\ lastCall.op = "render" /\ lastCall.outcome = "ok"
    /\ lastCall.cfg = NoCfg
    /\ \E i \in DOMAIN head : head[i].tag = "icon"
    /\ Content(body) = <<ElemNode("e1"), ElemNode("e2")>>

BodyScripts(b) == SelectSeq(b, LAMBDA n : n.tag = "script")

\* C12 (as stated): after every successful render the body holds exactly one
\* script element of the engine, and it is the last child of the body.
C12_OneTrailingScript ==
    [][RenderOk =>
          /\ Len(BodyScripts(body')) = 1
          /\ Last(body').tag = "script"]_vars

\* C12 (amended): after every successful render, the first or a repeated one,
\* the body holds at most one script element of the engine and no child follows
\* it; the reactive and global engines always emit it, the counter engine
\* emits it exactly when a behaviour entry was waiting in scriptBuffer or
\* loadBuffer.
C12_AtMostOneTrailingScript ==
    [][RenderOk =>
          /\ Len(BodyScripts(body')) <= 1
          /\ \A i \in DOMAIN body' : body'[i].tag = "script" => i = Len(body')
          /\ Len(BodyScripts(body')) = 1 <=>
                \/ variant \in {"reactive", "global"}
                \/ Len(scriptBuffer) + Len(loadBuffer) > 0]_vars

\* the counter engine rendered two nodes with an event binding waiting, and
\* its script came after them
C12_Witness ==
    /\ variant = "counter"
    /\ lastCall.op = "render" /\ lastCall.outcome = "ok"
    /\ Len(body) = 3 /\ body[1].tag = "el" /\ body[2].tag = "el"
    /\ body[3].tag = "script" /\ Len(body[3].scripts) = 1

\* a call that recorded a behaviour entry
Registered ==
    /\ calls' = calls + 1
    /\ lastCall'.op \in {"on", "bind", "oncreate"}
    /\ lastCall'.outcome = "ok"

\* the statements of the script a render would emit now, in textual order: the
\* script element holds the scriptBuffer entries followed by the load listener
\* with the loadBuffer entries
Pending == scriptBuffer \o loadBuffer
Statements(sc) == sc.scripts \o sc.loads

C15_NonCallableRejected ==
    [][\A e \in Elems, k \in Keys, t \in Tokens, f \in Handlers \ {"fn"} :
          (OnEvent(e, "click", f, t) \/ Click(e, f, t) \/ Oncreate(f)
             \/ Bind(e, k, f, t)) =>
             /\ lastCall'.outcome = "thrown"
             /\ UNCHANGED <<scriptBuffer, loadBuffer, elId>>]_vars

SaveStep == calls' = calls + 1 /\ lastCall'.op = "save"
OutputStep == calls' = calls + 1 /\ lastCall'.op = "output"

\* C18: while no render has succeeded, save writes no file and output yields
\* no document, each reports the failure (it throws, or it logs), and neither
\* changes the engine.
C18_NothingBeforeRender ==
    [][~lastRendered.some =>
          /\ SaveStep =>
                /\ lastCall'.io = "none"
                /\ lastCall'.outcome \in {"thrown", "caught"}
          /\ OutputStep =>
                /\ lastCall'.io # "document"
                /\ lastCall'.outcome \in {"thrown", "caught"}
          /\ SaveStep \/ OutputStep =>
                UNCHANGED <<elemVars, bufVars, ctrVars, docVars, lastRendered>>]_vars

\* C19: no save call ends by throwing to its caller; a save whose write fails
\* is caught and logged, and lastRendered is as before.
C19_SaveContained ==
    [][SaveStep =>
          /\ lastCall'.outcome \in {"ok", "caught"}
          /\ lastRendered' = lastRendered]_vars

\* the page's script holds a state-watch binding for key k; in PageSpec every
\* bind call is made on e1 with the handler "fn"
BoundTo(pg, k) ==
    \E i \in DOMAIN Last(pg.body).node.scripts :
        /\ Last(pg.body).node.scripts[i].kind = "watch"
        /\ Last(pg.body).node.scripts[i].key = k

\* C16: in the emitted runtime, writing to a State key the value it holds
\* invokes no watcher and leaves every stored value as it was.
C16_NoOpOnEqualValue ==
    [][\A k \in PageKeys, v \in ClientVals :
          Write(k, v) /\ Held(store, k) = v =>
             fired' = <<>> /\ store' = store]_vars

\* C17: in the emitted runtime, writing to a State key k a value other than
\* the one it holds stores the value and invokes the watchers registered for
\* k, and only them, once each with the new value in registration order; when
\* the write returns, the mounted element that was bound to k shows the
\* transform of the new value.
C17_DispatchOnChange ==
    [][\A k \in PageKeys, v \in ClientVals :
          Write(k, v) /\ Held(store, k) # v =>
             /\ store'[k] = v
             /\ fired' = [i \in 1..Len(Watchers(k)) |-> [w |-> Watchers(k)[i], v |-> v]]
             /\ "e1" \in Mounted(page) /\ BoundTo(page, k) =>
                   shown'["e1"] = Transform("fn", v)]_vars

\* the NodeElements an argument list holds at any depth, from left to right
Leaves(args) == SelectSeq(args, LAMBDA t : t \in Children)

RECURSIVE AdoptAll(_, _, _)
AdoptAll(ks, e, nodes) ==
    IF nodes = <<>> THEN ks ELSE AdoptAll(Adopt(ks, e, Head(nodes)), e, Tail(nodes))

\* C20: append with any argument list of nodes and nested arrays of nodes
\* makes the nodes found at any depth the last children of the element, in
\* left-to-right order, skips falsy entries and returns the parent.
C20_AppendNested ==
    [][\A e \in Elems, args \in ArgLists :
          AppendChildren(e, args) =>
             /\ kids' = AdoptAll(kids, e, Leaves(args))
             /\ lastCall'.outcome = "ok"]_vars

\* the element methods that change their element or register something for it
Mutators ==
    {"append", "id", "text", "class", "attribute", "css", "uniqueClass", "ref",
     "bind", "on", "oncreate"}

\* the nodes some element holds as a child
Attached(ks) == UNION {{ks[p][j] : j \in DOMAIN ks[p]} : p \in DOMAIN ks}

\* C21: child(tag) creates a new element, makes it the last child of the
\* receiver (the children the receiver had stay in place, no other element
\* changes) and returns the new child; append and every other mutator that
\* returns at all returns the receiver.
C21_ChildReturnsChild ==
    [][calls' = calls + 1 =>
          /\ lastCall'.op = "child" =>
                /\ lastCall'.outcome = "ok"
                /\ lastCall'.ret \notin Attached(kids) \cup Elems \cup Children
                /\ kids' = [kids EXCEPT ![lastCall'.el] = Append(@, lastCall'.ret)]
          /\ (lastCall'.op \in Mutators /\ lastCall'.outcome # "thrown") =>
                lastCall'.ret = lastCall'.el]_vars

\* a child call on an element that already had a child
C21_Witness ==
    /\ lastCall.op = "child"
    /\ lastCall.el = "e1"
    /\ Len(kids["e1"]) = 2
    /\ kids["e1"][1] = "a"
    /\ kids["e1"][2] = lastCall.ret

\* how many characters of a key /[A-Z]/ matches
Matches(p) == Cardinality({i \in DOMAIN p : p[i] \in Uppercase})

\* C22: the declaration key has, for each uppercase letter of the rules key, a
\* hyphen and the lowercase letter, and every other character unchanged, in
\* the same order; a key without uppercase letters is kept; converting the
\* converted key changes nothing; backgroundColor becomes background-color.
C22_KebabKeys ==
    cssKey # <<>> =>
       /\ Len(cssKey) = Len(prop) + Matches(prop)
       /\ \A i \in DOMAIN prop :
             LET at == i + Matches(SubSeq(prop, 1, i - 1))
             IN  IF prop[i] \in Uppercase
                 THEN cssKey[at] = "-" /\ cssKey[at + 1] = ToLowerCase(prop[i])
                      /\ cssKey[at + 1] \notin Uppercase
                 ELSE cssKey[at] = prop[i]
       /\ Matches(prop) = 0 => cssKey = prop
       /\ Replace(cssKey) = cssKey
       /\ prop = BackgroundColor =>
             cssKey = <<"b", "a", "c", "k", "g", "r", "o", "u", "n", "d", "-",
                        "c", "o", "l", "o", "r">>

\* a key with two uppercase letters has been converted
C22_Witness ==
    /\ prop = <<"a", "C", "A">>
    /\ cssKey = <<"a", "-", "c", "-", "a">>

\* C23: a sharedClass or globalStyle call whose rules map cannot be enumerated
\* throws nothing and leaves styleBuffer as it was, and a render that succeeds
\* afterwards emits a stylesheet holding the rules the other calls registered,
\* all of them and in registration order.
C23_StyleErrorLocal ==
    [][/\ (/\ calls' = calls + 1
           /\ lastCall'.op \in {"sharedClass", "globalStyle"}
           /\ lastCall'.outcome # "ok") =>
             lastCall'.outcome = "caught" /\ styleBuffer' = styleBuffer
       /\ (RenderOk /\ styleBuffer # <<>>) =>
             /\ StyleBlocks(lastRendered'.head) # <<>>
             /\ Last(StyleBlocks(lastRendered'.head)).text = styleBuffer]_vars

PeerStep == calls' = calls + 1 /\ lastCall'.el = "peer"

\* the rules, body elements and statements a serialised document holds
RulesIn(r) ==
    UNION {{b.text[i].sel : i \in DOMAIN b.text} :
              b \in {r.head[j] : j \in {k \in DOMAIN r.head : r.head[k].tag = "style"}}}
ElementsIn(r) ==
    {r.body[i].node.el : i \in {j \in DOMAIN r.body : r.body[j].node.tag = "el"}}
StatementsIn(r) ==
    UNION {{r.body[i].node.scripts[k] : k \in DOMAIN r.body[i].node.scripts} :
              i \in DOMAIN r.body}

\* C24: with two engines whose calls interleave, a call on one engine changes
\* no buffer and no document content of the other, and the document each
\* engine retains holds only rules, body elements and statements registered
\* on or passed to that engine.
C24_EnginesIsolated ==
    [][/\ PeerStep =>
             UNCHANGED <<styleBuffer, scriptBuffer, loadBuffer, refs, stateBuffer,
                         title, head, body, lastRendered>>
       /\ (calls' = calls + 1 /\ lastCall'.el # "peer") =>
             /\ UNCHANGED <<peerStyle, peerRendered>>
             /\ PeerDocument' = PeerDocument
       /\ (RenderOk /\ lastCall'.el = "-") =>
             /\ RulesIn(lastRendered') \subseteq {"." \o n : n \in Selectors}
             /\ ElementsIn(lastRendered') = {"e1"}
       /\ (RenderOk /\ lastCall'.el = "peer") =>
             /\ RulesIn(peerRendered') \subseteq {"." \o n : n \in PeerSelectors}
             /\ ElementsIn(peerRendered') = {"e2"}
             /\ StatementsIn(peerRendered') = {}]_vars

\* C25: after text(value), for every value and an element of any tag, the
\* element holds the value as its text and no child element, and its
\* serialisation, read back by a browser, holds no element but the element
\* itself.
C25_TextNeverMarkup ==
    [][\A e \in Elems :
          (calls' = calls + 1 /\ lastCall'.op = "text" /\ lastCall'.el = e) =>
             /\ elText'[e] \in Texts
             /\ kids'[e] = <<>>
             /\ StartTags(SerializeNode(elTag'[e], elText'[e], kids'[e]), "") = 1]_vars

\* C26: the function given to an element's oncreate is called by the load
\* listener with that element as its argument; the function given to the
\* engine's oncreate is called with no argument.
C26_OncreateGetsElement ==
    [][(calls' = calls + 1 /\ lastCall'.op = "oncreate" /\ lastCall'.outcome = "ok") =>
          /\ loadBuffer' # <<>>
          /\ Invoke(Last(loadBuffer')).args =
                IF lastCall'.el = "-" THEN <<>> ELSE <<lastCall'.el>>]_vars

\* C27: when render is called, every refs entry holds the identifier its
\* element has now, and every event and watch entry of scriptBuffer holds an
\* identifier some element has now, whatever calls came before, an id(value)
\* after the registering call included.
C27_BindingsNameCurrentId ==
    [][RenderStep =>
          /\ \A n \in DOMAIN refs : refs[n] = elId[refEl[n]]
          /\ \A i \in DOMAIN scriptBuffer :
                \E e \in Elems : elId[e] = scriptBuffer[i].id]_vars

\* C28: when the browser has evaluated the emitted script, every watcher is in
\* _cbs, every event binding whose element is in the page is attached, and the
\* load listener holds the lifecycle entries, also when some event binding
\* names an identifier the page does not have.
C28_EntriesIndependent ==
    [][(page'.loaded /\ ~page.loaded) =>
          LET sc == Last(lastRendered.body).node
          IN  /\ onload' = sc.loads
              /\ \A i \in DOMAIN sc.scripts :
                    IF sc.scripts[i].kind = "watch"
                    THEN \E j \in DOMAIN WatchersIn(cbs', sc.scripts[i].key) :
                            WatchersIn(cbs', sc.scripts[i].key)[j] = sc.scripts[i]
                    ELSE GetElementById(page', sc.scripts[i].id) # "null" =>
                            \E j \in DOMAIN listeners' :
                               listeners'[j] = sc.scripts[i]]_vars

\* C29: after uniqueClass, whatever its rules argument, the element carries
\* the generated class name and styleBuffer holds exactly one rule for it.
C29_UniqueClassHasRule ==
    [][(calls' = calls + 1 /\ lastCall'.op = "uniqueClass") =>
          LET name == Last(genClasses')
          IN  /\ name \in elClass'[lastCall'.el]
              /\ Cardinality({i \in DOMAIN styleBuffer' :
                                 styleBuffer'[i].sel = "." \o name}) = 1]_vars

\* C30: lastRendered changes only in a render that succeeds: every builder
\* call, every failed render, every save and every output leaves it as it
\* was, and output gives out its text.
C30_SnapshotKept ==
    [][/\ lastRendered' # lastRendered => RenderOk
       /\ OutputStep => /\ lastRendered' = lastRendered
                        /\ lastCall'.io = Text(lastRendered)]_vars

\* output after the rendered element was given another id: the snapshot still
\* holds the id of the time of the render
C30_Witness ==
    /\ lastCall.op = "output"
    /\ lastCall.io = "document"
    /\ lastRendered.some
    /\ Len(lastRendered.body) >= 1
    /\ lastRendered.body[1].node.tag = "el"
    /\ lastRendered.body[1].id # elId[lastRendered.body[1].node.el]

====
